---- MODULE Spec2Model ----
(***************************************************************************)
(* Session lifecycle and data-pipeline orchestration of the Chrono-Insight *)
(* dashboard (src/main.py): the SessionManager class, the upload and       *)
(* derived-table directories it drives, and the mode callback of the UI.   *)
(***************************************************************************)
EXTENDS Integers, Sequences, FiniteSets, TLC

\* ---------------------------------------------------------------- bounds
\* Time is counted in calls of create_new_session, add_files_to_session,
\* process_session_pdfs and clear_session: at most MaxClock of them.
MaxClock == 3
\* Longest list of files handed to one upload (SpecIngest).
MaxBatch == 2
\* Largest number of records the analyzer returns.
MaxInsights == 2

\* ------------------------------------------------------------ value sets
\* str(uuid.uuid4())[:8]: a random 8-digit token, which can repeat.
SessionIds == {"s1", "s2"}
None == "None"

\* A filename is its sequence of characters.
Filenames == {<<"a", ".", "p", "d", "f">>, <<"b", ".", "P", "D", "F">>,
              <<"n", ".", "t", "x", "t">>}

\* An upload's content is <<label, base64 text>>: a data URL, or bare base64.
PdfLabel == "data:application/pdf;base64,"
RawLabel == ""
Contents == {<<PdfLabel, "b64:p1">>, <<RawLabel, "b64:p2">>, <<PdfLabel, "b64:???">>}

\* What a file of the upload directory holds.
NoFile == "<no file>"
Truncated == "<empty>"
DecodeError == "<binascii.Error>"

\* What open(file_path, 'wb') and f.write(file_data) do for one file.
WriteOutcomes == {"ok", "open_raises", "write_raises"}

\* The threads of the development server that app.run starts: one for each
\* request that is being served.
Threads == {"t1", "t2"}
\* A thread that serves no request.
Idle == [pc |-> "idle", session_id |-> None]

DEFAULT_DATA_PATH == <<"default_data">>
USER_SESSIONS_PATH == <<"user_sessions">>
KeyError == <<"KeyError">>

\* The five table files, in the order they are written.
TableFiles == <<"nlp_ai_insights.csv", "nlp_domain_analysis.csv", "nlp_temporal_analysis.csv",
                "nlp_pattern_analysis.csv", "nlp_entity_analysis.csv">>
TableNames == {TableFiles[i] : i \in DOMAIN TableFiles}

\* A table file of a derived directory: absent, half written, or the table
\* built from n records.
NoTable == [exists |-> FALSE, complete |-> FALSE, n |-> 0]
TornTable == [exists |-> TRUE, complete |-> FALSE, n |-> 0]
TableOf(n) == [exists |-> TRUE, complete |-> TRUE, n |-> n]

VARIABLES
  current_mode,           \* SessionManager.current_mode
  current_session_id,     \* SessionManager.current_session_id
  sessions,               \* SessionManager.sessions: id -> record
  has_unprocessed_files,  \* SessionManager.has_unprocessed_files (the dirty flag)
  uploaded_pdfs,          \* id -> filename -> bytes: session_<id>/uploaded_pdfs
  processed_data,         \* id -> table file -> table: session_<id>/processed_data
  NLP_AVAILABLE,          \* whether nlp_pipeline was imported
  clock,                  \* datetime.now()
  data_source,            \* value of the 'data-source-toggle' radio items
  last,                   \* the last call: its name, arguments and result
  accepted,               \* history: id -> files were accepted since its last completed run
  removed_active,         \* history: the active session was removed, none created since
  removed,                \* history: the ids whose record clear_session removed
  threads,                \* server thread -> the callback it is in, and where
  default_data,           \* table file -> table: the directory DEFAULT_DATA_PATH
  read_raises             \* the table files that pd.read_csv cannot read

vars == <<current_mode, current_session_id, sessions, has_unprocessed_files,
          uploaded_pdfs, processed_data, NLP_AVAILABLE, clock, data_source, last,
          accepted, removed_active, removed, threads, default_data, read_raises>>

\* What no method of the manager and no callback writes.
environment == <<NLP_AVAILABLE, default_data, read_raises>>

\* --------------------------------------------------------------- helpers
Min(a, b) == IF a <= b THEN a ELSE b

\* dict[key] = value
DictSet(d, k, v) == [x \in (DOMAIN d) \cup {k} |-> IF x = k THEN v ELSE d[x]]
\* del dict[key]
DictDel(d, k) == [x \in (DOMAIN d) \ {k} |-> d[x]]

SessionPath(id) == USER_SESSIONS_PATH \o <<"session_" , id>>
UploadPath(id) == SessionPath(id) \o <<"uploaded_pdfs">>
ProcessedPath(id) == SessionPath(id) \o <<"processed_data">>

EmptyUploadDir == [f \in Filenames |-> NoFile]
EmptyProcessedDir == [t \in TableNames |-> NoTable]

\* The manager and the directories it owns, as one value.
Self == [current_mode |-> current_mode,
         current_session_id |-> current_session_id,
         sessions |-> sessions,
         has_unprocessed_files |-> has_unprocessed_files,
         uploaded_pdfs |-> uploaded_pdfs,
         processed_data |-> processed_data,
         nlp_available |-> NLP_AVAILABLE,
         clock |-> clock]

\* The same at the time of the next call: datetime.now() reads s.clock.
Called == [Self EXCEPT !.clock = @ + 1]

Commit(s) ==
  /\ current_mode' = s.current_mode
  /\ current_session_id' = s.current_session_id
  /\ sessions' = s.sessions
  /\ has_unprocessed_files' = s.has_unprocessed_files
  /\ uploaded_pdfs' = s.uploaded_pdfs
  /\ processed_data' = s.processed_data
  /\ clock' = s.clock

\* ------------------------------------------------- SessionManager.__init__
InitManager ==
  /\ current_mode = "default"
  /\ current_session_id = None
  /\ sessions = [x \in {} |-> x]
  /\ has_unprocessed_files = FALSE
  /\ uploaded_pdfs = [id \in SessionIds |-> EmptyUploadDir]
  /\ processed_data = [id \in SessionIds |-> EmptyProcessedDir]
  /\ NLP_AVAILABLE \in BOOLEAN
  /\ clock = 0
  /\ data_source = "default"
  /\ last = [op |-> "init"]
  /\ accepted = [id \in SessionIds |-> FALSE]
  /\ removed_active = FALSE
  /\ removed = {}
  /\ threads = [t \in Threads |-> Idle]

\* The default data directory holds its five tables and every file reads.
Init ==
  /\ InitManager
  /\ default_data = [t \in TableNames |-> TableOf(1)]
  /\ read_raises = {}

\* --------------------------------------------------- create_new_session
\* os.makedirs(..., exist_ok=True) keeps whatever the directories hold.
create_new_session(s, session_id) ==
  [s EXCEPT
     !.sessions = DictSet(s.sessions, session_id,
                    [created_at |-> s.clock,
                     uploaded_files |-> <<>>,
                     processed_files |-> <<>>,
                     session_path |-> SessionPath(session_id),
                     upload_path |-> UploadPath(session_id),
                     processed_path |-> ProcessedPath(session_id)]),
     !.current_session_id = session_id,
     !.current_mode = "user",
     !.has_unprocessed_files = TRUE]

CreateNewSession ==
  /\ clock < MaxClock
  /\ \E session_id \in SessionIds :
       /\ Commit(create_new_session(Called, session_id))
       /\ last' = [op |-> "create_new_session", session_id |-> session_id,
                   existed |-> session_id \in DOMAIN sessions]
       /\ accepted' = [accepted EXCEPT ![session_id] = FALSE]
  /\ removed_active' = FALSE
  /\ UNCHANGED <<environment, threads, data_source, removed>>

\* -------------------------------------------------- add_files_to_session
\* str.lower(), one character at a time.
LowerChar(c) ==
  CASE c = "P" -> "p" [] c = "D" -> "d" [] c = "F" -> "f" [] OTHER -> c
Lower(str) == [i \in DOMAIN str |-> LowerChar(str[i])]

\* str.endswith(suffix)
EndsWith(str, suffix) ==
  /\ Len(str) >= Len(suffix)
  /\ SubSeq(str, Len(str) - Len(suffix) + 1, Len(str)) = suffix

DotPdf == <<".", "p", "d", "f">>

\* Line 95 without lower(): a test that tells upper case from lower case.
IsPdfNameCaseSensitive(filename) == EndsWith(filename, DotPdf)
\* Line 95 refusing no name.
IsPdfNameAny(filename) == TRUE
\* Line 95: filename.lower().endswith('.pdf')
IsPdfName(filename) == EndsWith(Lower(filename), DotPdf)

\* base64.b64decode: the bytes a base64 text stands for, or binascii.Error.
b64decode(text) ==
  CASE text = "b64:p1" -> "p1"
    [] text = "b64:p2" -> "p2"
    [] OTHER -> DecodeError

\* Lines 100-106: a labelled data URL gives its part after the comma to
\* b64decode, anything else goes to b64decode whole.
Decode(content) ==
  IF content[1] = PdfLabel
    THEN b64decode(content[2])
    ELSE b64decode(content[1] \o content[2])

\* Lines 109-111 keeping a file that is already there.
WriteFileOnce(dir, filename, file_data, write) ==
  CASE write = "open_raises" -> dir
    [] write = "write_raises" -> [dir EXCEPT ![filename] = Truncated]
    [] OTHER -> IF dir[filename] = NoFile THEN [dir EXCEPT ![filename] = file_data] ELSE dir
\* Lines 109-111: open(file_path, 'wb') empties the file, f.write fills it.
WriteFile(dir, filename, file_data, write) ==
  CASE write = "open_raises" -> dir
    [] write = "write_raises" -> [dir EXCEPT ![filename] = Truncated]
    [] OTHER -> [dir EXCEPT ![filename] = file_data]

RECURSIVE SaveFiles(_, _, _, _, _, _)

\* Lines 116-118 leaving the loop instead of going on.
AfterErrorBreak(dir, saved, file_contents, filenames, writes, i) ==
  [dir |-> dir, saved_files |-> saved]
\* Lines 116-118: the except clause goes on with the next file.
AfterError(dir, saved, file_contents, filenames, writes, i) ==
  SaveFiles(dir, saved, file_contents, filenames, writes, i + 1)

\* Lines 94-118, from the i-th pair of zip(file_contents, filenames) on:
\* dir is the upload directory, saved the list saved_files so far.
SaveFiles(dir, saved, file_contents, filenames, writes, i) ==
  IF i > Min(Len(file_contents), Len(filenames))
    THEN [dir |-> dir, saved_files |-> saved]
    ELSE
      LET content == file_contents[i]
          filename == filenames[i]
          file_data == Decode(content)
          written == WriteFile(dir, filename, file_data, writes[i])
      IN  IF ~IsPdfName(filename)
            THEN SaveFiles(dir, saved, file_contents, filenames, writes, i + 1)
          ELSE IF file_data = DecodeError
            THEN AfterError(dir, saved, file_contents, filenames, writes, i)
          ELSE IF writes[i] # "ok"
            THEN AfterError(written, saved, file_contents, filenames, writes, i)
          ELSE SaveFiles(written, Append(saved, filename),
                         file_contents, filenames, writes, i + 1)

\* Lines 86-127 with the flag of line 125 set before the test of line 88.
add_files_to_session_marking(s, session_id, file_contents, filenames, writes) ==
  IF session_id \notin DOMAIN s.sessions
    THEN [self |-> [s EXCEPT !.has_unprocessed_files = TRUE],
          ok |-> FALSE, msg |-> "Session not found", n |-> 0]
    ELSE
      LET session == s.sessions[session_id]
          r == SaveFiles(s.uploaded_pdfs[session_id], <<>>, file_contents, filenames,
                         writes, 1)
          session2 == DictSet(
                        DictSet(session, "uploaded_files",
                                session["uploaded_files"] \o r.saved_files),
                        "last_updated", s.clock)
      IN  [self |-> [s EXCEPT !.sessions = DictSet(s.sessions, session_id, session2),
                              !.uploaded_pdfs = [@ EXCEPT ![session_id] = r.dir],
                              !.has_unprocessed_files = TRUE],
           ok |-> TRUE, msg |-> "Added files to session", n |-> Len(r.saved_files)]
\* The manager after add_files_to_session, and what the call returns.
add_files_to_session(s, session_id, file_contents, filenames, writes) ==
  IF session_id \notin DOMAIN s.sessions
    THEN [self |-> s, ok |-> FALSE, msg |-> "Session not found", n |-> 0]
    ELSE
      LET session == s.sessions[session_id]
          r == SaveFiles(s.uploaded_pdfs[session_id], <<>>, file_contents, filenames,
                         writes, 1)
          session2 == DictSet(
                        DictSet(session, "uploaded_files",
                                session["uploaded_files"] \o r.saved_files),
                        "last_updated", s.clock)
      IN  [self |-> [s EXCEPT !.sessions = DictSet(s.sessions, session_id, session2),
                              !.uploaded_pdfs = [@ EXCEPT ![session_id] = r.dir],
                              !.has_unprocessed_files = TRUE],
           ok |-> TRUE, msg |-> "Added files to session", n |-> Len(r.saved_files)]

\* The uploads: a list of files, each with its content, its name and what
\* writing it does. A file whose name is refused is never decoded, a file
\* that is not decoded is never written, and a write that raises stores
\* nothing of the content: each of these comes with one content only. A call
\* for an id that is not registered returns before it reads the lists: there
\* a list of one file stands for the longer ones.
SeqsUpTo(S, n) == UNION {[1..k -> S] : k \in 0..n}
UploadedFile ==
  {f \in [content : Contents, filename : Filenames, write : WriteOutcomes] :
     /\ (~IsPdfName(f.filename)) => (f.content = <<PdfLabel, "b64:p1">>)
     /\ (f.write # "ok") => (IsPdfName(f.filename) /\ f.content = <<PdfLabel, "b64:p1">>)}
PlainFile == {f \in UploadedFile : f.write = "ok" /\ f.content = <<PdfLabel, "b64:p1">>}
Uploads == SeqsUpTo(UploadedFile, MaxBatch)
\* The uploads of Spec: nothing, or one such file.
SingleUploads == {<<>>} \cup {<<f>> : f \in PlainFile}

AddFilesToSession(uploads) ==
  /\ clock < MaxClock
  /\ \E session_id \in SessionIds, files \in uploads :
       LET file_contents == [i \in DOMAIN files |-> files[i].content]
           filenames == [i \in DOMAIN files |-> files[i].filename]
           writes == [i \in DOMAIN files |-> files[i].write]
           r == add_files_to_session(Called, session_id, file_contents, filenames, writes)
       IN  /\ (session_id \notin DOMAIN sessions) => (Len(files) <= 1)
           /\ Commit(r.self)
           /\ last' = [op |-> "add_files_to_session", session_id |-> session_id,
                       files |-> files, ok |-> r.ok, msg |-> r.msg, n |-> r.n]
           /\ accepted' = IF r.ok /\ r.n >= 1
                            THEN [accepted EXCEPT ![session_id] = TRUE]
                            ELSE accepted
  /\ UNCHANGED <<environment, threads, data_source, removed_active, removed>>

\* ----------------------------------------------------- get_session_files
get_session_files(s, session_id) ==
  IF session_id \notin DOMAIN s.sessions THEN <<>>
  ELSE s.sessions[session_id]["uploaded_files"]

\* -------------------------------------------------- process_session_pdfs
\* What the analyzer and the disk do in one run: process_pdfs raises or
\* returns n records, create_nlp_enhanced_dataframes raises or not, and the
\* fail_at-th to_csv raises (0: none does), leaving its file half written
\* (torn) or untouched.
RunOutcomes ==
  {e \in [analyzer : {"raises", "returns"}, n : 0..MaxInsights, tables : {"raises", "built"},
          fail_at : 0..Len(TableFiles), torn : BOOLEAN] :
     /\ (e.analyzer = "raises") => (e.n = 0)
     /\ (e.analyzer = "raises" \/ e.n = 0) => (e.tables = "built")
     /\ (e.analyzer = "raises" \/ e.n = 0 \/ e.tables = "raises") => (e.fail_at = 0)
     /\ (e.fail_at = 0) => ~e.torn}
\* The run of an analyzer that is never called.
NoRun == [analyzer |-> "returns", n |-> 0, tables |-> "built", fail_at |-> 0, torn |-> FALSE]

\* Line 154 taking every result for a result.
IsEmptyNever(n) == FALSE
\* Line 154: if not all_insights
IsEmpty(n) == n = 0

\* Lines 166-170: the five to_csv calls in order, from the i-th on.
RECURSIVE WriteTables(_, _, _)
\* Lines 166-170 as one transaction: with a to_csv that raises no file of
\* the directory is replaced.
WriteTablesTransactional(dir, e, i) ==
  IF e.fail_at # 0 THEN [dir |-> dir, raised |-> TRUE]
  ELSE [dir |-> [t \in TableNames |-> TableOf(e.n)], raised |-> FALSE]
WriteTables(dir, e, i) ==
  IF i > Len(TableFiles) THEN [dir |-> dir, raised |-> FALSE]
  ELSE IF e.fail_at = i
    THEN [dir |-> IF e.torn THEN [dir EXCEPT ![TableFiles[i]] = TornTable] ELSE dir,
          raised |-> TRUE]
  ELSE WriteTables([dir EXCEPT ![TableFiles[i]] = TableOf(e.n)], e, i + 1)

\* Lines 173-183: the table files that exist, in the order of the list.
CreatedFiles(dir) == SelectSeq(TableFiles, LAMBDA t : dir[t].exists)

\* Lines 185-187 counting the table files instead of the records.
RecordRunFiles(session, created_files, now, n) ==
  DictSet(DictSet(DictSet(session,
    "processed_files", created_files),
    "last_processed", now),
    "insight_count", Len(created_files))
\* Lines 185-187: the record of a completed run.
RecordRun(session, created_files, now, n) ==
  DictSet(DictSet(DictSet(session,
    "processed_files", created_files),
    "last_processed", now),
    "insight_count", n)

\* Lines 196-200 with the record updated before the tables are written.
WriteFailedAfterRecord(s, session_id, dir, n) ==
  [self |-> [s EXCEPT !.processed_data = [@ EXCEPT ![session_id] = dir],
                      !.sessions = DictSet(s.sessions, session_id,
                                     RecordRun(s.sessions[session_id], CreatedFiles(dir),
                                               s.clock, n)),
                      !.has_unprocessed_files = FALSE],
   ok |-> FALSE, msg |-> "Error processing PDFs", n |-> 0]
\* Lines 196-200: a to_csv that raises leaves what was written so far.
WriteFailed(s, session_id, dir, n) ==
  [self |-> [s EXCEPT !.processed_data = [@ EXCEPT ![session_id] = dir]],
   ok |-> FALSE, msg |-> "Error processing PDFs", n |-> 0]

\* Lines 137-138 going on without the analyzer.
NlpCheckSkipped(s) == FALSE
\* Lines 137-138: if not NLP_AVAILABLE
NlpUnavailable(s) == ~s.nlp_available

process_session_pdfs(s, session_id, e) ==
  IF NlpUnavailable(s)
    THEN [self |-> s, ok |-> FALSE, msg |-> "NLP processing not available", n |-> 0]
  ELSE IF session_id \notin DOMAIN s.sessions
    THEN [self |-> s, ok |-> FALSE, msg |-> "Session not found", n |-> 0]
  ELSE
    LET session == s.sessions[session_id]
        w == WriteTables(s.processed_data[session_id], e, 1)
    IN  IF e.analyzer = "raises"
          THEN [self |-> s, ok |-> FALSE, msg |-> "Error processing PDFs", n |-> 0]
        ELSE IF IsEmpty(e.n)
          THEN [self |-> s, ok |-> FALSE, msg |-> "No insights extracted from PDFs", n |-> 0]
        ELSE IF e.tables = "raises"
          THEN [self |-> s, ok |-> FALSE, msg |-> "Error processing PDFs", n |-> 0]
        ELSE IF w.raised
          THEN WriteFailed(s, session_id, w.dir, e.n)
        ELSE
          [self |-> [s EXCEPT !.processed_data = [@ EXCEPT ![session_id] = w.dir],
                              !.sessions = DictSet(s.sessions, session_id,
                                             RecordRun(session, CreatedFiles(w.dir),
                                                       s.clock, e.n)),
                              !.has_unprocessed_files = FALSE],
           ok |-> TRUE, msg |-> "Successfully processed insights", n |-> e.n]

ProcessSessionPdfs ==
  /\ clock < MaxClock
  /\ \E session_id \in SessionIds, e \in RunOutcomes :
       LET r == process_session_pdfs(Called, session_id, e)
           reached == ~NlpUnavailable(Called) /\ session_id \in DOMAIN sessions
       IN  /\ (~reached) => (e = NoRun)
           /\ Commit(r.self)
           /\ last' = [op |-> "process_session_pdfs", session_id |-> session_id,
                       reached |-> reached, run |-> e,
                       ok |-> r.ok, msg |-> r.msg, n |-> r.n]
           /\ accepted' = IF r.ok THEN [accepted EXCEPT ![session_id] = FALSE] ELSE accepted
  /\ UNCHANGED <<environment, threads, data_source, removed_active, removed>>

\* ---------------------------------------------------------- clear_session
\* shutil.rmtree removes the whole tree, or raises having removed nothing,
\* or raises after the uploads are gone.
RmtreeOutcomes == {"removed", "raises", "raises_midway"}

\* Lines 202-216 removing the directories and nothing else.
clear_session_dirs_only(s, session_id, rmtree) ==
  IF session_id \in DOMAIN s.sessions
    THEN [s EXCEPT
            !.uploaded_pdfs =
               [@ EXCEPT ![session_id] = IF rmtree = "raises" THEN @ ELSE EmptyUploadDir],
            !.processed_data =
               [@ EXCEPT ![session_id] = IF rmtree = "removed" THEN EmptyProcessedDir ELSE @]]
    ELSE s
\* Lines 202-216 without lines 213-216: the record and the directories go,
\* the current id stays.
clear_session_keeping_current(s, session_id, rmtree) ==
  IF session_id \in DOMAIN s.sessions
    THEN [s EXCEPT
            !.uploaded_pdfs =
               [@ EXCEPT ![session_id] = IF rmtree = "raises" THEN @ ELSE EmptyUploadDir],
            !.processed_data =
               [@ EXCEPT ![session_id] = IF rmtree = "removed" THEN EmptyProcessedDir ELSE @],
            !.sessions = DictDel(s.sessions, session_id)]
    ELSE s
\* Lines 202-216 with lines 214-216 run for every id: the mode, the current
\* id and the dirty flag are reset whichever session is removed.
clear_session_resetting(s, session_id, rmtree) ==
  LET s1 == IF session_id \in DOMAIN s.sessions
              THEN [s EXCEPT
                      !.uploaded_pdfs =
                         [@ EXCEPT ![session_id] =
                            IF rmtree = "raises" THEN @ ELSE EmptyUploadDir],
                      !.processed_data =
                         [@ EXCEPT ![session_id] =
                            IF rmtree = "removed" THEN EmptyProcessedDir ELSE @],
                      !.sessions = DictDel(s.sessions, session_id)]
              ELSE s
  IN  [s1 EXCEPT !.current_session_id = None,
                 !.current_mode = "default",
                 !.has_unprocessed_files = FALSE]
clear_session(s, session_id, rmtree) ==
  LET s1 == IF session_id \in DOMAIN s.sessions
              THEN [s EXCEPT
                      !.uploaded_pdfs =
                         [@ EXCEPT ![session_id] =
                            IF rmtree = "raises" THEN @ ELSE EmptyUploadDir],
                      !.processed_data =
                         [@ EXCEPT ![session_id] =
                            IF rmtree = "removed" THEN EmptyProcessedDir ELSE @],
                      !.sessions = DictDel(s.sessions, session_id)]
              ELSE s
  IN  IF s1.current_session_id = session_id
        THEN [s1 EXCEPT !.current_session_id = None,
                        !.current_mode = "default",
                        !.has_unprocessed_files = FALSE]
        ELSE s1

ClearSession ==
  /\ clock < MaxClock
  /\ \E session_id \in SessionIds \cup {None}, rmtree \in RmtreeOutcomes :
       LET existed == session_id \in DOMAIN sessions
           was_current == session_id = current_session_id
       IN  /\ (~existed) => (rmtree = "removed")
           /\ Commit(clear_session(Called, session_id, rmtree))
           /\ last' = [op |-> "clear_session", session_id |-> session_id,
                       rmtree |-> rmtree, existed |-> existed, was_current |-> was_current]
           /\ accepted' = IF existed THEN [accepted EXCEPT ![session_id] = FALSE]
                          ELSE accepted
           /\ removed_active' = (removed_active \/ (existed /\ was_current))
           /\ removed' = IF existed THEN removed \cup {session_id} ELSE removed
  /\ UNCHANGED <<environment, threads, data_source>>

\* ------------------------------------------------------ switch_to_default
\* Lines 218-223 dropping the record of the session that was current.
switch_to_default_evicting(s) ==
  [s EXCEPT !.current_mode = "default",
            !.current_session_id = None,
            !.has_unprocessed_files = FALSE,
            !.sessions = IF s.current_session_id \in DOMAIN s.sessions
                           THEN DictDel(s.sessions, s.current_session_id)
                           ELSE s.sessions]
\* Lines 218-223 without line 221: the current id stays.
switch_to_default_keeping_id(s) ==
  [s EXCEPT !.current_mode = "default",
            !.has_unprocessed_files = FALSE]
switch_to_default(s) ==
  [s EXCEPT !.current_mode = "default",
            !.current_session_id = None,
            !.has_unprocessed_files = FALSE]

SwitchToDefault ==
  /\ Commit(switch_to_default(Self))
  /\ last' = [op |-> "switch_to_default"]
  /\ UNCHANGED <<environment, threads, data_source, accepted, removed_active, removed>>

\* -------------------------------------------------- get_current_data_path
\* self.sessions[key], which raises KeyError for a key that is not there.
SessionOf(s, key) ==
  IF key \in DOMAIN s.sessions THEN s.sessions[key] ELSE [processed_path |-> KeyError]

\* Lines 225-232 without the test of the default mode.
get_current_data_path_ignoring_mode(s) ==
  IF s.current_session_id \in DOMAIN s.sessions
    THEN SessionOf(s, s.current_session_id)["processed_path"]
  ELSE DEFAULT_DATA_PATH
\* Lines 225-232 without the test that the id is in the registry.
get_current_data_path_unguarded(s) ==
  IF s.current_mode = "default" THEN DEFAULT_DATA_PATH
  ELSE IF s.current_mode = "user"
    THEN SessionOf(s, s.current_session_id)["processed_path"]
  ELSE DEFAULT_DATA_PATH
get_current_data_path(s) ==
  IF s.current_mode = "default" THEN DEFAULT_DATA_PATH
  ELSE IF s.current_mode = "user" /\ s.current_session_id \in DOMAIN s.sessions
    THEN SessionOf(s, s.current_session_id)["processed_path"]
  ELSE DEFAULT_DATA_PATH

\* --------------------------------------------------- get_processing_status
\* dict.get(key, default)
Get(d, key, default) == IF key \in DOMAIN d THEN d[key] ELSE default

\* Lines 234-248: the status line of a session, as its text and the numbers
\* put into it.
get_processing_status(s, session_id) ==
  IF session_id \notin DOMAIN s.sessions THEN <<"No active session">>
  ELSE
    LET session == s.sessions[session_id]
        file_count == Len(Get(session, "uploaded_files", <<>>))
        processed_count == Get(session, "insight_count", 0)
    IN  IF s.has_unprocessed_files
          THEN <<"Ready to process PDFs", file_count>>
        ELSE IF processed_count > 0
          THEN <<"Processed PDFs (insights)", file_count, processed_count>>
        ELSE <<"PDFs uploaded - Ready to process", file_count>>

\* ------------------------------------------- update_data_source_indicator
\* The callback of the data-source toggle, the reset button and the refresh
\* trigger: value is the toggle's value when it runs.
DataSources == {"default", "user"}
Triggers == {"data-source-toggle.value", "reset-default.n_clicks", "data-refresh-trigger.data"}

\* Lines 750-765 calling switch_to_default whatever started the callback.
update_data_source_indicator_resetting(s, value, triggered) ==
  [switch_to_default(s) EXCEPT !.current_mode = value]
update_data_source_indicator(s, value, triggered) ==
  LET s1 == IF triggered = "reset-default.n_clicks" THEN switch_to_default(s) ELSE s
  IN  [s1 EXCEPT !.current_mode = value]

UpdateDataSourceIndicator ==
  /\ \E triggered \in Triggers, value \in DataSources :
       /\ (triggered # "data-source-toggle.value") => (value = data_source)
       /\ data_source' = value
       /\ Commit(update_data_source_indicator(Self, value, triggered))
       /\ last' = [op |-> "update_data_source_indicator", triggered |-> triggered]
  /\ UNCHANGED <<environment, threads, accepted, removed_active, removed>>

\* ------------------------------------------------------ handle_file_upload
\* The value of the 'upload-mode' radio items.
UploadModes == {"new", "add"}

\* The manager one call later.
Tick(s) == [s EXCEPT !.clock = @ + 1]

\* The callback of the upload area: value is the data-source toggle's value,
\* new_id the id create_new_session draws if it is called.
\* Lines 928-961 with line 946 testing only whether a session is current:
\* the upload mode 'new' adds to the current session as 'add' does.
handle_file_upload_ignoring_mode(s, file_contents, filenames, writes, upload_mode, value, new_id) ==
  IF file_contents = <<>> \/ filenames = <<>>
    THEN [self |-> s, handled |-> FALSE, created |-> FALSE, session_id |-> None, n |-> 0]
    ELSE
      LET s1 == IF value # "user" THEN [s EXCEPT !.current_mode = "user"] ELSE s
          create == s1.current_session_id = None
          s2 == IF create THEN create_new_session(Tick(s1), new_id) ELSE s1
          session_id == IF create THEN new_id ELSE s1.current_session_id
          r == add_files_to_session(Tick(s2), session_id, file_contents, filenames, writes)
      IN  [self |-> r.self, handled |-> TRUE, created |-> create,
           session_id |-> session_id, n |-> r.n]
handle_file_upload(s, file_contents, filenames, writes, upload_mode, value, new_id) ==
  IF file_contents = <<>> \/ filenames = <<>>
    THEN [self |-> s, handled |-> FALSE, created |-> FALSE, session_id |-> None, n |-> 0]
    ELSE
      LET s1 == IF value # "user" THEN [s EXCEPT !.current_mode = "user"] ELSE s
          create == upload_mode = "new" \/ s1.current_session_id = None
          s2 == IF create THEN create_new_session(Tick(s1), new_id) ELSE s1
          session_id == IF create THEN new_id ELSE s1.current_session_id
          r == add_files_to_session(Tick(s2), session_id, file_contents, filenames, writes)
      IN  [self |-> r.self, handled |-> TRUE, created |-> create,
           session_id |-> session_id, n |-> r.n]

HandleFileUpload ==
  /\ \E files \in SingleUploads, upload_mode \in UploadModes, new_id \in SessionIds :
       LET file_contents == [i \in DOMAIN files |-> files[i].content]
           filenames == [i \in DOMAIN files |-> files[i].filename]
           writes == [i \in DOMAIN files |-> files[i].write]
           r == handle_file_upload(Self, file_contents, filenames, writes, upload_mode,
                                   data_source, new_id)
           reset == IF r.created THEN [accepted EXCEPT ![r.session_id] = FALSE] ELSE accepted
       IN  /\ r.self.clock <= MaxClock
           /\ Commit(r.self)
           /\ last' = [op |-> "handle_file_upload", files |-> files,
                       upload_mode |-> upload_mode, handled |-> r.handled,
                       created |-> r.created, session_id |-> r.session_id, n |-> r.n]
           /\ accepted' = IF r.n >= 1 THEN [reset EXCEPT ![r.session_id] = TRUE] ELSE reset
           /\ removed_active' = (removed_active /\ ~r.created)
  /\ UNCHANGED <<environment, threads, data_source, removed>>

\* --------------------------------------------------- process_uploaded_pdfs
\* The n_clicks of the process button: 0 before the first click.
Clicks == {0, 1}

\* The callback of the process button: value is the data-source toggle's
\* value, e what the analyzer and the disk do if the run is started.
process_uploaded_pdfs(s, n_clicks, value, e) ==
  IF n_clicks = 0 \/ value # "user"
    THEN [self |-> s, called |-> FALSE, session_id |-> None, ok |-> FALSE,
          msg |-> "Process PDFs", n |-> 0, refresh |-> FALSE]
  ELSE IF s.current_session_id = None
    THEN [self |-> s, called |-> FALSE, session_id |-> None, ok |-> FALSE,
          msg |-> "No session found", n |-> 0, refresh |-> FALSE]
  ELSE
    LET r == process_session_pdfs(Tick(s), s.current_session_id, e)
    IN  [self |-> r.self, called |-> TRUE, session_id |-> s.current_session_id,
         ok |-> r.ok, msg |-> r.msg, n |-> r.n, refresh |-> r.ok]

ProcessUploadedPdfs ==
  /\ \E n_clicks \in Clicks, e \in RunOutcomes :
       LET r == process_uploaded_pdfs(Self, n_clicks, data_source, e)
           reached == /\ r.called
                      /\ ~NlpUnavailable(Self)
                      /\ r.session_id \in DOMAIN sessions
       IN  /\ (~reached) => (e = NoRun)
           /\ r.self.clock <= MaxClock
           /\ Commit(r.self)
           /\ last' = [op |-> "process_uploaded_pdfs", n_clicks |-> n_clicks,
                       called |-> r.called, session_id |-> r.session_id,
                       reached |-> reached, run |-> e,
                       ok |-> r.ok, msg |-> r.msg, n |-> r.n, refresh |-> r.refresh]
           /\ accepted' = IF r.ok THEN [accepted EXCEPT ![r.session_id] = FALSE] ELSE accepted
  /\ UNCHANGED <<environment, threads, data_source, removed_active, removed>>

\* ------------------------------------------------------- load_current_data
\* pd.DataFrame(): the table with no column and no row.
EmptyFrame == [empty |-> TRUE, complete |-> FALSE, n |-> 0]
\* pd.read_csv of a table file that reads: what was written of the table.
FrameOf(file) == [empty |-> FALSE, complete |-> file.complete, n |-> file.n]

\* The directory a path names.
Directory(s, default_dir, data_path) ==
  IF data_path = DEFAULT_DATA_PATH THEN default_dir
  ELSE s.processed_data[data_path[Len(data_path) - 1]]

\* Lines 281-294: one table file, in its own try / except.
LoadTable(dir, filename, raises) ==
  IF dir[filename].exists
    THEN IF filename \in raises THEN EmptyFrame ELSE FrameOf(dir[filename])
    ELSE EmptyFrame

\* Lines 281-294 with one try / except around the loop: nothing is loaded
\* once a file is missing or does not read.
LoadNoneOnError(dir, raises) ==
  IF \E t \in TableNames : ~dir[t].exists \/ t \in raises
    THEN [i \in DOMAIN TableFiles |-> EmptyFrame]
    ELSE [i \in DOMAIN TableFiles |-> FrameOf(dir[TableFiles[i]])]
\* Lines 281-300: the five tables, in the order they are returned.
LoadTables(dir, raises) ==
  [i \in DOMAIN TableFiles |-> LoadTable(dir, TableFiles[i], raises)]

\* Lines 254-300 with the manager put back in default mode when the path
\* is the default one.
load_current_data_resetting(s, default_dir, raises) ==
  LET data_path == get_current_data_path(s)
  IN  [self |-> IF data_path = DEFAULT_DATA_PATH THEN switch_to_default(s) ELSE s,
       frames |-> LoadTables(Directory(s, default_dir, data_path), raises)]
\* The manager after load_current_data, and the tables it returns.
load_current_data(s, default_dir, raises) ==
  LET data_path == get_current_data_path(s)
  IN  [self |-> s,
       frames |-> LoadTables(Directory(s, default_dir, data_path), raises)]

LoadCurrentData ==
  /\ LET r == load_current_data(Self, default_data, read_raises)
     IN  /\ Commit(r.self)
         /\ last' = [op |-> "load_current_data", data_path |-> get_current_data_path(Self),
                     frames |-> r.frames]
  /\ UNCHANGED <<environment, threads, data_source, accepted, removed_active, removed>>

\* ----------------------------------------------------- update_session_info
\* The callback of the session panel: value is the data-source toggle's
\* value. What it shows of the current session.
update_session_info(s, value) ==
  IF value # "user" \/ s.current_session_id = None
    THEN [shown |-> FALSE]
    ELSE
      LET session == IF s.current_session_id \in DOMAIN s.sessions
                       THEN s.sessions[s.current_session_id]
                       ELSE [x \in {} |-> x]
      IN  [shown |-> TRUE,
           session_id |-> s.current_session_id,
           file_count |-> Len(Get(session, "uploaded_files", <<>>)),
           insight_count |-> Get(session, "insight_count", 0),
           status |-> get_processing_status(s, s.current_session_id)]

\* ---------------------------------------------------- callbacks in threads
\* app.run (line 1466) serves every request in a thread of its own, and the
\* module takes no lock: a callback that is in add_files_to_session or in
\* process_session_pdfs runs from one of the points below to the next, and
\* the other threads run in between. A thread in a callback is
\*   pc = "add":     in add_files_to_session, before the loop of line 94;
\*   pc = "analyze": in process_session_pdfs, before line 152;
\*   pc = "write":   before the i-th to_csv of lines 166-170;
\*   pc = "commit":  before the i-th of the assignments of lines 185, 186,
\*                   187 and 192.
\* A run remembers the derived directory it started to write on (before),
\* the insight_count of the record when it wrote its last table (count), and
\* whether a file was accepted into its session after its analyzer returned
\* (missed).
Busy == \E t \in Threads : threads[t].pc # "idle"
\* The threads that are in a call on the session.
InFlight(session_id) ==
  {t \in Threads : threads[t].pc # "idle" /\ threads[t].session_id = session_id}

\* Time in SpecThreads: one call more than MaxClock.
MaxCalls == MaxClock + 1

\* The uploads of SpecThreads: the one file a.pdf, which decodes and is
\* written.
ThreadUploads == {<<f>> : f \in {g \in PlainFile : g.filename = <<"a", ".", "p", "d", "f">>}}
\* The runs of SpecThreads: the analyzer returns, the tables are built, and
\* no write raises or the third one does, leaving its file as it was.
ThreadRuns ==
  {e \in RunOutcomes : /\ e.analyzer = "returns" /\ e.tables = "built"
                       /\ e.fail_at \in {0, 3} /\ ~e.torn}

\* handle_file_upload, lines 928-952 and 88-92: up to the loop over the files.
\* An id drawn again while a call on it is in flight is left out.
UploadBegin(t) ==
  /\ threads[t] = Idle
  /\ \E files \in ThreadUploads, upload_mode \in UploadModes, new_id \in SessionIds :
       LET s1 == IF data_source # "user" THEN [Self EXCEPT !.current_mode = "user"] ELSE Self
           create == upload_mode = "new" \/ s1.current_session_id = None
           s2 == IF create THEN create_new_session(Tick(s1), new_id) ELSE s1
           session_id == IF create THEN new_id ELSE s1.current_session_id
           s3 == Tick(s2)
           found == session_id \in DOMAIN s3.sessions
       IN  /\ s3.clock <= MaxCalls
           /\ create => (InFlight(new_id) = {})
           /\ Commit(s3)
           /\ threads' = IF found
                           THEN [threads EXCEPT ![t] =
                                   [pc |-> "add", session_id |-> session_id, files |-> files,
                                    upload_mode |-> upload_mode, created |-> create]]
                           ELSE threads
           /\ last' = IF found THEN last
                      ELSE [op |-> "handle_file_upload", files |-> files,
                            upload_mode |-> upload_mode, handled |-> TRUE,
                            created |-> create, session_id |-> session_id, n |-> 0]
           /\ accepted' = IF create THEN [accepted EXCEPT ![session_id] = FALSE] ELSE accepted
           /\ removed_active' = (removed_active /\ ~create)
  /\ UNCHANGED <<environment, data_source, removed>>

\* handle_file_upload, lines 94-127 and 954-961: the files are written and
\* recorded, and the callback returns.
UploadEnd(t) ==
  /\ threads[t].pc = "add"
  /\ LET c == threads[t]
         files == c.files
         file_contents == [i \in DOMAIN files |-> files[i].content]
         filenames == [i \in DOMAIN files |-> files[i].filename]
         writes == [i \in DOMAIN files |-> files[i].write]
         r == add_files_to_session(Self, c.session_id, file_contents, filenames, writes)
         analyzed == {u \in InFlight(c.session_id) : threads[u].pc \in {"write", "commit"}}
     IN  /\ Commit(r.self)
         /\ last' = [op |-> "handle_file_upload", files |-> files,
                     upload_mode |-> c.upload_mode, handled |-> TRUE,
                     created |-> c.created, session_id |-> c.session_id, n |-> r.n]
         /\ accepted' = IF r.n >= 1 THEN [accepted EXCEPT ![c.session_id] = TRUE]
                        ELSE accepted
         /\ threads' = [u \in Threads |->
                          IF u = t THEN Idle
                          ELSE IF u \in analyzed /\ r.n >= 1
                            THEN [threads[u] EXCEPT !.missed = TRUE]
                          ELSE threads[u]]
  /\ UNCHANGED <<environment, data_source, removed_active, removed>>

\* What process_uploaded_pdfs returns for a run that failed.
RunFailed(c, e, msg) ==
  [op |-> "process_uploaded_pdfs", n_clicks |-> c.n_clicks, called |-> TRUE,
   session_id |-> c.session_id, reached |-> TRUE, run |-> e,
   ok |-> FALSE, msg |-> msg, n |-> 0, refresh |-> FALSE]

\* process_uploaded_pdfs, lines 971-980 and 137-148: up to the analyzer.
ProcessBegin(t) ==
  /\ threads[t] = Idle
  /\ \E n_clicks \in Clicks :
       LET r == process_uploaded_pdfs(Self, n_clicks, data_source, NoRun)
           reached == /\ r.called
                      /\ ~NlpUnavailable(Self)
                      /\ r.session_id \in DOMAIN sessions
       IN  /\ r.self.clock <= MaxCalls
           /\ IF reached
                THEN /\ Commit(Tick(Self))
                     /\ threads' = [threads EXCEPT ![t] =
                                      [pc |-> "analyze", session_id |-> r.session_id,
                                       n_clicks |-> n_clicks]]
                     /\ last' = last
                ELSE /\ Commit(r.self)
                     /\ threads' = threads
                     /\ last' = [op |-> "process_uploaded_pdfs", n_clicks |-> n_clicks,
                                 called |-> r.called, session_id |-> r.session_id,
                                 reached |-> FALSE, run |-> NoRun,
                                 ok |-> r.ok, msg |-> r.msg, n |-> r.n, refresh |-> r.refresh]
  /\ UNCHANGED <<environment, data_source, accepted, removed_active, removed>>

\* Lines 152-163: the analyzer reads the upload directory and the tables
\* are built.
RunAnalyze(t) ==
  /\ threads[t].pc = "analyze"
  /\ \E e \in ThreadRuns :
       LET c == threads[t]
           r == process_session_pdfs(Self, c.session_id, e)
       IN  IF e.analyzer = "raises" \/ IsEmpty(e.n) \/ e.tables = "raises"
             THEN /\ threads' = [threads EXCEPT ![t] = Idle]
                  /\ last' = RunFailed(c, e, r.msg)
             ELSE /\ threads' = [threads EXCEPT ![t] =
                                   [pc |-> "write", session_id |-> c.session_id,
                                    n_clicks |-> c.n_clicks, run |-> e, i |-> 1,
                                    before |-> processed_data[c.session_id],
                                    count |-> 0, missed |-> FALSE]]
                  /\ last' = last
  /\ Commit(Self)
  /\ UNCHANGED <<environment, data_source, accepted, removed_active, removed>>

\* One of lines 166-170: the i-th to_csv of a run.
ToCsv(dir, e, i) ==
  IF e.fail_at = i
    THEN [dir |-> IF e.torn THEN [dir EXCEPT ![TableFiles[i]] = TornTable] ELSE dir,
          raised |-> TRUE]
    ELSE [dir |-> [dir EXCEPT ![TableFiles[i]] = TableOf(e.n)], raised |-> FALSE]

RunWrite(t) ==
  /\ threads[t].pc = "write"
  /\ LET c == threads[t]
         w == ToCsv(processed_data[c.session_id], c.run, c.i)
     IN  /\ Commit([Self EXCEPT !.processed_data = [@ EXCEPT ![c.session_id] = w.dir]])
         /\ IF w.raised
              THEN /\ threads' = [threads EXCEPT ![t] = Idle]
                   /\ last' = RunFailed(c, c.run, "Error processing PDFs")
              ELSE /\ threads' = [threads EXCEPT ![t] =
                                    IF c.i = Len(TableFiles)
                                      THEN [c EXCEPT !.pc = "commit", !.i = 1,
                                                     !.count = Get(sessions[c.session_id],
                                                                   "insight_count", 0)]
                                      ELSE [c EXCEPT !.i = @ + 1]]
                   /\ last' = last
  /\ UNCHANGED <<environment, data_source, accepted, removed_active, removed>>

\* One of the assignments of lines 185, 186, 187 and 192, the first with the
\* loop of lines 173-183 before it and the last with the return after it.
RunCommit(t) ==
  /\ threads[t].pc = "commit"
  /\ LET c == threads[t]
         session_id == c.session_id
         session == sessions[session_id]
         Assign(key, value) ==
           [Self EXCEPT !.sessions = DictSet(@, session_id, DictSet(session, key, value))]
     IN  /\ Commit(CASE c.i = 1 ->
                          Assign("processed_files", CreatedFiles(processed_data[session_id]))
                     [] c.i = 2 -> Assign("last_processed", clock)
                     [] c.i = 3 -> Assign("insight_count", c.run.n)
                     [] OTHER -> [Self EXCEPT !.has_unprocessed_files = FALSE])
         /\ IF c.i <= 3
              THEN /\ threads' = [threads EXCEPT ![t] = [c EXCEPT !.i = @ + 1]]
                   /\ last' = last
                   /\ accepted' = accepted
              ELSE /\ threads' = [threads EXCEPT ![t] = Idle]
                   /\ last' = [op |-> "process_uploaded_pdfs", n_clicks |-> c.n_clicks,
                               called |-> TRUE, session_id |-> session_id,
                               reached |-> TRUE, run |-> c.run, ok |-> TRUE,
                               msg |-> "Successfully processed insights",
                               n |-> c.run.n, refresh |-> TRUE]
                   /\ accepted' = [accepted EXCEPT ![session_id] = c.missed]
  /\ UNCHANGED <<environment, data_source, removed_active, removed>>

\* update_session_info, served while another callback is in flight.
UpdateSessionInfo ==
  /\ Busy
  /\ Commit(Self)
  /\ last' = [op |-> "update_session_info", view |-> update_session_info(Self, data_source)]
  /\ UNCHANGED <<environment, threads, data_source, accepted, removed_active, removed>>

\* load_current_data, called while another callback is in flight.
LoadWhileBusy == Busy /\ LoadCurrentData

\* The mode callback, served while no other callback is in flight.
ModeWhileIdle == (~Busy) /\ UpdateDataSourceIndicator

\* ---------------------------------------------------------------- system

Next ==
  \/ CreateNewSession
  \/ AddFilesToSession(SingleUploads)
  \/ ProcessSessionPdfs
  \/ ClearSession
  \/ SwitchToDefault
  \/ UpdateDataSourceIndicator

Spec == Init /\ [][Next]_vars

\* The callbacks that set the mode: what the running application does to
\* the manager through the toggle, the reset button and the upload area.
NextUI ==
  \/ UpdateDataSourceIndicator
  \/ HandleFileUpload

SpecUI == Init /\ [][NextUI]_vars

\* The calls that fill a session, with every upload of up to MaxBatch files.
NextIngest ==
  \/ CreateNewSession
  \/ AddFilesToSession(Uploads)

SpecIngest == Init /\ [][NextIngest]_vars

\* The calls that decide what load_current_data reads, and load_current_data,
\* over the default data directories and the files that do not read.
DefaultDirs ==
  {EmptyProcessedDir,
   [t \in TableNames |-> IF t = TableFiles[2] THEN NoTable ELSE TableOf(1)]}
Unreadable == {{}, {TableFiles[1], TableFiles[3]}}

InitLoad ==
  /\ InitManager
  /\ default_data \in DefaultDirs
  /\ read_raises \in Unreadable

NextLoad ==
  \/ CreateNewSession
  \/ ProcessSessionPdfs
  \/ UpdateDataSourceIndicator
  \/ LoadCurrentData

SpecLoad == InitLoad /\ [][NextLoad]_vars

\* The callbacks of the running application: toggle, reset button and
\* refresh, upload area, process button, and the loads of the tab views,
\* over the files that do not read.
InitApp ==
  /\ InitManager
  /\ default_data = [t \in TableNames |-> TableOf(1)]
  /\ read_raises \in Unreadable

NextApp ==
  \/ UpdateDataSourceIndicator
  \/ HandleFileUpload
  \/ ProcessUploadedPdfs
  \/ LoadCurrentData

SpecApp == InitApp /\ [][NextApp]_vars

\* The callbacks of the running application, served in threads.
NextThreads ==
  \/ ModeWhileIdle
  \/ \E t \in Threads : UploadBegin(t)
  \/ \E t \in Threads : UploadEnd(t)
  \/ \E t \in Threads : ProcessBegin(t)
  \/ \E t \in Threads : RunAnalyze(t)
  \/ \E t \in Threads : RunWrite(t)
  \/ \E t \in Threads : RunCommit(t)
  \/ UpdateSessionInfo
  \/ LoadWhileBusy

SpecThreads == Init /\ [][NextThreads]_vars

\* ======================================================= processing runs
\* The value of an optional key of a session record: <<v>>, or <<>>.
Field(session, key) == IF key \in DOMAIN session THEN <<session[key]>> ELSE <<>>

\* l records a call of process_session_pdfs that got as far as the analyzer.
AnalyzerInvoked(l) == l.op = "process_session_pdfs" /\ l.reached
\* ... whose analyzer returned no record.
RunEmpty(l) == AnalyzerInvoked(l) /\ l.run.analyzer = "returns" /\ l.run.n = 0
\* ... in which the analyzer, the table construction or a write raised.
RunRaised(l) ==
  /\ AnalyzerInvoked(l)
  /\ (l.run.analyzer = "raises" \/ l.run.tables = "raises" \/ l.run.fail_at # 0)
\* ... whose analyzer returned records, all five writes succeeding.
RunCompleted(l) ==
  /\ AnalyzerInvoked(l)
  /\ l.run.analyzer = "returns" /\ l.run.n >= 1
  /\ l.run.tables = "built" /\ l.run.fail_at = 0

\* The result fields of a session and the dirty flag are what they were.
MetadataKept(session_id) ==
  /\ \A key \in {"insight_count", "last_processed", "processed_files"} :
       Field(sessions'[session_id], key) = Field(sessions[session_id], key)
  /\ has_unprocessed_files' = has_unprocessed_files

\* C1: a run on a registered session whose analyzer returns zero records
\* returns a failure and leaves the session as it was: insight_count,
\* processed_files, last_processed and the dirty flag keep their values and
\* no table file of any derived directory is written.
C1_EmptyResultLeavesSessionUntouched ==
  [][RunEmpty(last') =>
       /\ ~last'.ok
       /\ last'.session_id \in DOMAIN sessions'
       /\ MetadataKept(last'.session_id)
       /\ sessions'[last'.session_id] = sessions[last'.session_id]
       /\ processed_data' = processed_data]_vars

\* An empty run on a session that an earlier run completed on.
C1_Witness ==
  /\ RunEmpty(last)
  /\ last.msg = "No insights extracted from PDFs"
  /\ "insight_count" \in DOMAIN sessions[last.session_id]
  /\ processed_data[last.session_id][TableFiles[1]].exists

\* C2: a run in which the analyzer raises, the table construction raises or
\* one of the five writes raises returns a failure, and insight_count,
\* last_processed, processed_files and the dirty flag do not change.
C2_FailedRunKeepsMetadata ==
  [][RunRaised(last') =>
       /\ ~last'.ok
       /\ MetadataKept(last'.session_id)]_vars

\* The third write of a first run raised: two tables are on disk, the third
\* is half written, and the record has no result.
C2_Witness ==
  /\ RunRaised(last)
  /\ last.run.fail_at = 3 /\ last.run.torn
  /\ processed_data[last.session_id][TableFiles[2]].complete
  /\ processed_data[last.session_id][TableFiles[3]] = TornTable
  /\ "insight_count" \notin DOMAIN sessions[last.session_id]
  /\ has_unprocessed_files

\* l records a call of add_files_to_session that accepted a file.
IngestAccepted(l) == l.op = "add_files_to_session" /\ l.ok /\ l.n >= 1
\* l records a call of process_session_pdfs that returned success.
RunSucceeded(l) == l.op = "process_session_pdfs" /\ l.ok

\* C3: after a successful run the dirty flag is false, an ingest that accepts
\* a file sets it, and while a registered session holds files accepted since
\* its last successful run it stays set until the next successful run.
C3_DirtyUntilNextSuccessfulRun ==
  [][/\ RunSucceeded(last') => ~has_unprocessed_files'
     /\ IngestAccepted(last') => has_unprocessed_files'
     /\ (/\ has_unprocessed_files
         /\ \E session_id \in DOMAIN sessions' : accepted[session_id])
          => (has_unprocessed_files' \/ RunSucceeded(last'))]_vars

\* C4: a run on a registered session whose analyzer returns n >= 1 records
\* and whose five writes succeed ends with insight_count = n, the dirty flag
\* false, processed_files the five table names, and the five table files in
\* that session's derived directory.
C4_CompletedRunCommits ==
  [][RunCompleted(last') =>
       LET session_id == last'.session_id
           n == last'.run.n
       IN  /\ last'.ok
           /\ sessions'[session_id]["insight_count"] = n
           /\ ~has_unprocessed_files'
           /\ sessions'[session_id]["processed_files"] = TableFiles
           /\ \A t \in TableNames : processed_data'[session_id][t] = TableOf(n)]_vars

\* A completed run of MaxInsights records on a session holding a file.
C4_Witness ==
  /\ RunCompleted(last)
  /\ last.run.n = MaxInsights
  /\ sessions[last.session_id]["insight_count"] = MaxInsights
  /\ Len(sessions[last.session_id]["uploaded_files"]) >= 1
  /\ ~has_unprocessed_files

\* ================================================================ ingest
\* The name ends in ".pdf", in any mix of upper and lower case.
HasPdfExtension(filename) ==
  /\ Len(filename) >= 4
  /\ filename[Len(filename) - 3] = "."
  /\ filename[Len(filename) - 2] \in {"p", "P"}
  /\ filename[Len(filename) - 1] \in {"d", "D"}
  /\ filename[Len(filename)] \in {"f", "F"}

\* The bytes an uploaded file carries, when its text is base64.
ValidBase64 == {"b64:p1", "b64:p2"}
Payload(f) == b64decode(f.content[2])

\* An uploaded file that is accepted: allowed extension, decoded, written.
Acceptable(f) ==
  /\ HasPdfExtension(f.filename)
  /\ f.content[2] \in ValidBase64
  /\ f.write = "ok"
\* An uploaded file with an allowed extension whose decoding or writing fails.
Failing(f) == HasPdfExtension(f.filename) /\ ~Acceptable(f)

\* The names of the accepted files of a list, in its order.
RECURSIVE AcceptedNames(_)
AcceptedNames(files) ==
  IF files = <<>> THEN <<>>
  ELSE (IF Acceptable(Head(files)) THEN <<Head(files).filename>> ELSE <<>>)
         \o AcceptedNames(Tail(files))

\* How often x occurs in seq.
Count(seq, x) == Cardinality({i \in DOMAIN seq : seq[i] = x})
\* How many accepted files of a list carry the name.
NumAccepted(files, name) ==
  Cardinality({i \in DOMAIN files : files[i].filename = name /\ Acceptable(files[i])})

\* get_session_files over a registry.
Files(registry, session_id) == get_session_files([sessions |-> registry], session_id)

\* The step is a call of add_files_to_session on a registered session.
Ingest == last'.op = "add_files_to_session" /\ last'.session_id \in DOMAIN sessions

\* C5: get_session_files is the concatenation, in call order and in
\* submission order within a call, of the accepted names: a session starts
\* with none, each ingest appends exactly the names of its accepted files in
\* their order, and nothing else changes any session's list.
C5_SessionFilesAreAcceptedNames ==
  [][\A session_id \in SessionIds :
       Files(sessions', session_id) =
         IF Ingest /\ last'.session_id = session_id
           THEN Files(sessions, session_id) \o AcceptedNames(last'.files)
         ELSE IF last'.op = "create_new_session" /\ last'.session_id = session_id
           THEN <<>>
         ELSE Files(sessions, session_id)]_vars

\* A second ingest of two files, an upper-case name accepted and a text file
\* refused, into a session that holds a name already.
C5_Witness ==
  /\ last.op = "add_files_to_session" /\ last.ok
  /\ Len(last.files) = 2
  /\ AcceptedNames(last.files) = << <<"b", ".", "P", "D", "F">> >>
  /\ \E i \in DOMAIN last.files : ~HasPdfExtension(last.files[i].filename)
  /\ Files(sessions, last.session_id)
       = << <<"a", ".", "p", "d", "f">>, <<"b", ".", "P", "D", "F">> >>

\* C6: ingesting a name again with another payload adds an entry of that
\* name to uploaded_files for each accepted file and leaves one stored file
\* of that name, holding the payload of the last one.
C6_LastWriteWins ==
  [][Ingest =>
       \A i \in DOMAIN last'.files :
         LET f == last'.files[i]
             session_id == last'.session_id
         IN  (/\ Acceptable(f)
              /\ \A j \in DOMAIN last'.files :
                   (j > i /\ last'.files[j].filename = f.filename)
                     => ~HasPdfExtension(last'.files[j].filename))
               => /\ uploaded_pdfs'[session_id][f.filename] = Payload(f)
                  /\ Count(Files(sessions', session_id), f.filename)
                       = Count(Files(sessions, session_id), f.filename)
                           + NumAccepted(last'.files, f.filename)]_vars

\* One name ingested twice with two payloads: two entries, the second stored.
C6_Witness ==
  /\ last.op = "add_files_to_session" /\ last.ok
  /\ Len(last.files) = 2
  /\ last.files[1].filename = last.files[2].filename
  /\ Acceptable(last.files[1]) /\ Acceptable(last.files[2])
  /\ Payload(last.files[1]) # Payload(last.files[2])
  /\ Files(sessions, last.session_id) = <<last.files[1].filename, last.files[2].filename>>
  /\ uploaded_pdfs[last.session_id][last.files[2].filename] = Payload(last.files[2])

\* C7: a file of an ingest whose name has no .pdf extension is not written
\* and not appended, the call raises no error, and the acceptable files of
\* the same ingest are all appended and stored.
C7_OtherExtensionsRefusedSilently ==
  [][(Ingest /\ \E i \in DOMAIN last'.files : ~HasPdfExtension(last'.files[i].filename)) =>
       LET session_id == last'.session_id
       IN  /\ last'.ok
           /\ last'.n = Len(AcceptedNames(last'.files))
           /\ \A i \in DOMAIN last'.files :
                LET f == last'.files[i]
                IN  /\ ~HasPdfExtension(f.filename) =>
                         /\ uploaded_pdfs'[session_id][f.filename]
                              = uploaded_pdfs[session_id][f.filename]
                         /\ Count(Files(sessions', session_id), f.filename)
                              = Count(Files(sessions, session_id), f.filename)
                    /\ Acceptable(f) =>
                         /\ uploaded_pdfs'[session_id][f.filename] # NoFile
                         /\ Count(Files(sessions', session_id), f.filename)
                              > Count(Files(sessions, session_id), f.filename)]_vars

\* A text file followed by a .pdf file: only the second is stored and listed.
C7_Witness ==
  /\ last.op = "add_files_to_session" /\ last.ok /\ last.n = 1
  /\ Len(last.files) = 2
  /\ ~HasPdfExtension(last.files[1].filename)
  /\ Acceptable(last.files[2])
  /\ uploaded_pdfs[last.session_id][last.files[1].filename] = NoFile
  /\ uploaded_pdfs[last.session_id][last.files[2].filename] = Payload(last.files[2])
  /\ Files(sessions, last.session_id) = <<last.files[2].filename>>

\* C8: a file of an ingest whose decoding or writing fails is not appended,
\* and every acceptable file of the same ingest, before or after it, is
\* appended and written.
C8_FailedFileSkipped ==
  [][(Ingest /\ \E i \in DOMAIN last'.files : Failing(last'.files[i])) =>
       LET session_id == last'.session_id
           appended == SubSeq(Files(sessions', session_id),
                              Len(Files(sessions, session_id)) + 1,
                              Len(Files(sessions', session_id)))
       IN  /\ Len(appended) = Cardinality({i \in DOMAIN last'.files :
                                             Acceptable(last'.files[i])})
           /\ \A i \in DOMAIN last'.files :
                LET f == last'.files[i]
                IN  /\ Failing(f) =>
                         Count(appended, f.filename) = NumAccepted(last'.files, f.filename)
                    /\ Acceptable(f) =>
                         /\ Count(appended, f.filename) >= 1
                         /\ uploaded_pdfs'[session_id][f.filename] # NoFile]_vars

\* A file that does not decode followed by an acceptable one of another name.
C8_Witness ==
  /\ last.op = "add_files_to_session" /\ last.ok /\ last.n = 1
  /\ Len(last.files) = 2
  /\ Failing(last.files[1]) /\ last.files[1].content[2] \notin ValidBase64
  /\ Acceptable(last.files[2])
  /\ last.files[1].filename # last.files[2].filename
  /\ uploaded_pdfs[last.session_id][last.files[1].filename] = NoFile
  /\ uploaded_pdfs[last.session_id][last.files[2].filename] = Payload(last.files[2])
  /\ Files(sessions, last.session_id) = <<last.files[2].filename>>

\* ======================================================= path resolution
\* The manager with another mode and another current id.
Having(mode, id) == [Self EXCEPT !.current_mode = mode, !.current_session_id = id]

\* C9: get_current_data_path returns a path and does not raise, in every
\* reachable state and for every mode and current id, None and ids that are
\* not registered included; for an id that does not resolve the path is the
\* default data path.
C9_PathResolutionNeverRaises ==
  \A mode \in DataSources, id \in SessionIds \cup {None, current_session_id} :
    LET path == get_current_data_path(Having(mode, id))
    IN  /\ path # KeyError
        /\ path \in {DEFAULT_DATA_PATH} \cup {ProcessedPath(x) : x \in SessionIds}
        /\ id \notin DOMAIN sessions => path = DEFAULT_DATA_PATH

\* The toggle put the manager in user mode with no current session, while a
\* session is registered.
C9_Witness ==
  /\ current_mode = "user"
  /\ current_session_id = None
  /\ DOMAIN sessions # {}
  /\ get_current_data_path(Self) = DEFAULT_DATA_PATH

\* C10: once the active session was removed, and until a session is created,
\* get_current_data_path returns the default data path whatever the mode is
\* set to, and does not raise.
C10_RemovedActiveSessionResolvesToDefault ==
  removed_active =>
    /\ get_current_data_path(Self) = DEFAULT_DATA_PATH
    /\ \A mode \in DataSources :
         get_current_data_path([Self EXCEPT !.current_mode = mode]) = DEFAULT_DATA_PATH

\* The active session was removed and the toggle set the mode to user again.
C10_Witness ==
  /\ removed_active
  /\ current_mode = "user"
  /\ last.op = "update_data_source_indicator"
  /\ get_current_data_path(Self) = DEFAULT_DATA_PATH

\* ================================================================== modes
\* get_current_data_path for a mode, a current id and a registry.
PathOf(mode, id, registry) ==
  get_current_data_path([current_mode |-> mode, current_session_id |-> id,
                         sessions |-> registry])

\* The step adds files to, processes or removes a session.
RegistryMutation ==
  last'.op \in {"add_files_to_session", "process_session_pdfs", "clear_session"}

\* C11: while the mode is default, get_current_data_path returns the default
\* data path whatever the registry holds and whatever the current id is, and
\* adding files to, processing or removing a session does not change it.
C11_DefaultModeResolvesToDefault ==
  [][/\ \A id \in SessionIds \cup {None, current_session_id} :
          PathOf("default", id, sessions) = DEFAULT_DATA_PATH
     /\ (current_mode = "default" /\ RegistryMutation)
          => /\ current_mode' = "default"
             /\ PathOf(current_mode, current_session_id, sessions) = DEFAULT_DATA_PATH
             /\ PathOf(current_mode', current_session_id', sessions') = DEFAULT_DATA_PATH]_vars

\* Files were added, in default mode, to the session that is current.
C11_Witness ==
  /\ current_mode = "default"
  /\ current_session_id \in DOMAIN sessions
  /\ last.op = "add_files_to_session" /\ last.ok /\ last.n = 1
  /\ last.session_id = current_session_id
  /\ get_current_data_path(Self) = DEFAULT_DATA_PATH

\* C12: the mode is user only with a current id that is a key of the
\* registry.
C12_UserModeHasRegisteredId ==
  current_mode = "user" => current_session_id \in DOMAIN sessions

\* The step switches to default: switch_to_default, the reset button, or the
\* toggle set to its value 'default'.
SwitchesToDefault ==
  \/ last'.op = "switch_to_default"
  \/ /\ last'.op = "update_data_source_indicator"
     /\ \/ last'.triggered = "reset-default.n_clicks"
        \/ last'.triggered = "data-source-toggle.value" /\ data_source' = "default"

\* C13: every switch to default leaves the mode default and the current id
\* cleared.
C13_SwitchToDefaultClearsId ==
  [][SwitchesToDefault => (current_mode' = "default" /\ current_session_id' = None)]_vars

\* The step is a change of mode: switch_to_default or the mode callback.
ModeSwitch == last'.op \in {"switch_to_default", "update_data_source_indicator"}

\* C14: switch_to_default and the mode callback leave the registry, every
\* record and every upload and derived directory as they were, and a record
\* leaves the registry only in a call of clear_session.
C14_ModeSwitchKeepsSessions ==
  [][/\ ModeSwitch => /\ sessions' = sessions
                      /\ uploaded_pdfs' = uploaded_pdfs
                      /\ processed_data' = processed_data
     /\ (DOMAIN sessions \ DOMAIN sessions' # {}) => last'.op = "clear_session"]_vars

\* The reset button was pressed with a session holding a file registered.
C14_Witness ==
  /\ last.op = "update_data_source_indicator"
  /\ last.triggered = "reset-default.n_clicks"
  /\ current_session_id = None
  /\ \E id \in DOMAIN sessions :
       /\ Len(sessions[id]["uploaded_files"]) >= 1
       /\ uploaded_pdfs[id] # EmptyUploadDir

\* C15: without the analyzer process_session_pdfs fails at once for every
\* id, registered or not, the analyzer not invoked, and no record, the dirty
\* flag, the mode, the current id and no derived file changes.
C15_UnavailableAnalyzerChangesNothing ==
  [][(last'.op = "process_session_pdfs" /\ ~NLP_AVAILABLE) =>
       /\ ~last'.ok
       /\ last'.msg = "NLP processing not available"
       /\ ~last'.reached
       /\ sessions' = sessions
       /\ has_unprocessed_files' = has_unprocessed_files
       /\ current_mode' = current_mode
       /\ current_session_id' = current_session_id
       /\ processed_data' = processed_data]_vars

\* A run asked for a registered session holding a file, without the analyzer.
C15_Witness ==
  /\ last.op = "process_session_pdfs"
  /\ ~NLP_AVAILABLE
  /\ last.session_id \in DOMAIN sessions
  /\ Len(sessions[last.session_id]["uploaded_files"]) >= 1
  /\ has_unprocessed_files
  /\ last.msg = "NLP processing not available"

\* =============================================================== loading
\* C16: load_current_data returns five tables and does not fail: each table
\* file on its own gives the empty table when it is missing or does not
\* read, and its table otherwise, whatever happens to the other four.
C16_LoadReturnsFiveTables ==
  [][last'.op = "load_current_data" =>
       LET dir == Directory(Self, default_data, last'.data_path)
       IN  /\ DOMAIN last'.frames = 1..Len(TableFiles)
           /\ \A i \in DOMAIN TableFiles :
                LET file == dir[TableFiles[i]]
                IN  last'.frames[i] =
                      IF (~file.exists) \/ TableFiles[i] \in read_raises
                        THEN EmptyFrame
                        ELSE [empty |-> FALSE, complete |-> file.complete, n |-> file.n]]_vars

\* A session's derived directory whose first table does not read, whose
\* second reads and whose third is missing.
C16_Witness ==
  /\ last.op = "load_current_data"
  /\ last.data_path # DEFAULT_DATA_PATH
  /\ TableFiles[1] \in read_raises
  /\ processed_data[current_session_id][TableFiles[1]].exists
  /\ last.frames[1] = EmptyFrame
  /\ last.frames[2] = [empty |-> FALSE, complete |-> TRUE, n |-> MaxInsights]
  /\ ~processed_data[current_session_id][TableFiles[3]].exists
  /\ last.frames[3] = EmptyFrame

\* C17: load_current_data changes no session, mode or file state, and a call
\* that follows another with nothing in between returns the same five tables.
C17_LoadReadOnlyIdempotent ==
  [][last'.op = "load_current_data" =>
       /\ UNCHANGED <<current_mode, current_session_id, sessions, has_unprocessed_files,
                      uploaded_pdfs, processed_data, default_data, data_source>>
       /\ (last.op = "load_current_data") => (last'.frames = last.frames)]_vars

\* Tables loaded from the default directory in user mode with no current id.
C17_Witness ==
  /\ last.op = "load_current_data"
  /\ current_mode = "user"
  /\ current_session_id = None
  /\ last.data_path = DEFAULT_DATA_PATH
  /\ \E i \in DOMAIN last.frames : ~last.frames[i].empty

\* ============================================================== registry
\* seq starts with prefix.
IsPrefix(prefix, seq) ==
  Len(prefix) <= Len(seq) /\ SubSeq(seq, 1, Len(prefix)) = prefix

\* C18: at every step the uploaded_files of a record that stays registered
\* starts with what it was before.
C18_UploadedFilesAppendOnly ==
  [][\A id \in DOMAIN sessions \cap DOMAIN sessions' :
       IsPrefix(sessions[id]["uploaded_files"], sessions'[id]["uploaded_files"])]_vars

\* C19: create_new_session returns an id that is not a key of the registry
\* and changes the record of no registered session.
C19_CreateReturnsFreshId ==
  [][last'.op = "create_new_session" =>
       /\ last'.session_id \notin DOMAIN sessions
       /\ \A id \in DOMAIN sessions : sessions'[id] = sessions[id]]_vars

\* C20: clear_session of a registered id removes the record whatever rmtree
\* does and surfaces no error; of an id that is not registered it changes
\* neither the registry, the mode, the current id nor the dirty flag.
C20_ClearEvictsOrDoesNothing ==
  [][last'.op = "clear_session" =>
       IF last'.session_id \in DOMAIN sessions
         THEN last'.session_id \notin DOMAIN sessions'
         ELSE /\ sessions' = sessions
              /\ current_mode' = current_mode
              /\ current_session_id' = current_session_id
              /\ has_unprocessed_files' = has_unprocessed_files]_vars

\* ============================================================ frame rules
ResultKeys == {"insight_count", "processed_files", "last_processed"}

\* C21: insight_count, processed_files and last_processed of a session that
\* stays registered change only in a step of process_session_pdfs on that
\* session that returns success.
C21_ResultFieldsWrittenOnlyByRun ==
  [][\A id \in DOMAIN sessions \cap DOMAIN sessions' :
       (\E key \in ResultKeys : Field(sessions'[id], key) # Field(sessions[id], key))
         => (RunSucceeded(last') /\ last'.session_id = id)]_vars

\* C22: the dirty flag goes from true to false only in a step of
\* process_session_pdfs that completes.
C22_DirtyClearedOnlyBySuccess ==
  [][(has_unprocessed_files /\ ~has_unprocessed_files') => RunCompleted(last')]_vars

\* get_processing_status for a flag and a registry.
StatusOf(flag, registry, session_id) ==
  get_processing_status([has_unprocessed_files |-> flag, sessions |-> registry], session_id)
\* The status reported for the session says it has files to process.
ReportedDirty(flag, registry, session_id) ==
  StatusOf(flag, registry, session_id)[1] = "Ready to process PDFs"

\* The step creates, adds files to or processes a session.
SessionCall ==
  last'.op \in {"create_new_session", "add_files_to_session", "process_session_pdfs"}

\* C23: the status reported for a registered session is dirty exactly when
\* files were accepted into it since its last successful run, and a step
\* that creates, adds files to or processes a session leaves the dirty
\* status reported for every other session as it was.
C23_DirtyIsPerSession ==
  [][/\ \A id \in DOMAIN sessions' :
          ReportedDirty(has_unprocessed_files', sessions', id) <=> accepted'[id]
     /\ SessionCall =>
          \A id \in (DOMAIN sessions \cap DOMAIN sessions') \ {last'.session_id} :
            ReportedDirty(has_unprocessed_files', sessions', id)
              = ReportedDirty(has_unprocessed_files, sessions, id)]_vars

\* The step is a call of add_files_to_session or process_session_pdfs.
AddressedTo(id) ==
  /\ last'.op \in {"add_files_to_session", "process_session_pdfs"}
  /\ last'.session_id = id

\* C24: an id whose record clear_session removed is never a key of the
\* registry again, its list of files is empty and it has no status, and a
\* call of add_files_to_session or process_session_pdfs with it changes
\* neither the manager nor a directory.
C24_RemovedIsTerminal ==
  [][\A id \in removed :
       /\ id \notin DOMAIN sessions'
       /\ get_session_files(Self, id) = <<>>
       /\ get_processing_status(Self, id) = <<"No active session">>
       /\ AddressedTo(id) =>
            /\ ~last'.ok
            /\ UNCHANGED <<current_mode, current_session_id, sessions,
                           has_unprocessed_files, uploaded_pdfs, processed_data>>]_vars

\* ============================================================ application
\* The frames of the five tables of a run of n records, read with the files
\* of raises not reading.
FramesOfRun(n, raises) ==
  [i \in DOMAIN TableFiles |->
     IF TableFiles[i] \in raises THEN EmptyFrame
     ELSE [empty |-> FALSE, complete |-> TRUE, n |-> n]]

\* l records a click of the process button whose run returned success.
ClickSucceeded(l) == l.op = "process_uploaded_pdfs" /\ l.ok

\* C25: after a click of the process button with the toggle on 'user' whose
\* run succeeds, the next load - of a tab view, or of the mode callback that
\* the refresh trigger starts - reads the derived directory of the session
\* processed and returns the five tables of that run.
C25_LoadAfterRunReadsSession ==
  [][ClickSucceeded(last) =>
       LET session_id == last.session_id
       IN  /\ data_source = "user"
           /\ last'.op = "load_current_data" =>
                /\ last'.data_path = ProcessedPath(session_id)
                /\ last'.frames = FramesOfRun(last.n, read_raises)
           /\ (/\ last'.op = "update_data_source_indicator"
               /\ last'.triggered = "data-refresh-trigger.data") =>
                LET r == load_current_data(Self', default_data, read_raises)
                IN  /\ get_current_data_path(Self') = ProcessedPath(session_id)
                    /\ r.frames = FramesOfRun(last.n, read_raises)]_vars

\* Tables of MaxInsights records loaded from the derived directory of a
\* session that holds an uploaded file, the default tables being others.
C25_Witness ==
  /\ last.op = "load_current_data"
  /\ data_source = "user"
  /\ current_session_id \in DOMAIN sessions
  /\ Len(sessions[current_session_id]["uploaded_files"]) >= 1
  /\ Get(sessions[current_session_id], "insight_count", 0) = MaxInsights
  /\ last.data_path = ProcessedPath(current_session_id)
  /\ \A t \in TableNames : default_data[t] # TableOf(MaxInsights)
  /\ read_raises = {}
  /\ \A i \in DOMAIN TableFiles :
       last.frames[i] = [empty |-> FALSE, complete |-> TRUE, n |-> MaxInsights]

\* ========================================================= derived tables
\* C26: a run whose k-th write raises leaves the tables before the k-th as
\* this run wrote them, the k-th half written or as it was, and the tables
\* after it as they were, while the record of the session does not change:
\* on a session processed before, the derived directory then holds tables of
\* two runs and insight_count, processed_files and last_processed are those
\* of the run before.
C26_FailedWriteLeavesMixedTables ==
  [][(RunRaised(last') /\ last'.run.fail_at >= 1) =>
       LET session_id == last'.session_id
           k == last'.run.fail_at
       IN  /\ \A i \in DOMAIN TableFiles :
                processed_data'[session_id][TableFiles[i]] =
                  IF i < k THEN TableOf(last'.run.n)
                  ELSE IF i = k /\ last'.run.torn THEN TornTable
                  ELSE processed_data[session_id][TableFiles[i]]
           /\ sessions'[session_id] = sessions[session_id]]_vars

\* The third write of a second run raised: the first two tables are of this
\* run, the last two of the run before, and the record describes the run
\* before.
C26_Witness ==
  /\ RunRaised(last)
  /\ last.run.fail_at = 3
  /\ last.run.n = MaxInsights
  /\ LET session_id == last.session_id
         dir == processed_data[session_id]
     IN  /\ Get(sessions[session_id], "insight_count", 0) = 1
         /\ sessions[session_id]["processed_files"] = TableFiles
         /\ Get(sessions[session_id], "last_processed", clock) < clock
         /\ dir[TableFiles[1]] = TableOf(MaxInsights)
         /\ dir[TableFiles[2]] = TableOf(MaxInsights)
         /\ dir[TableFiles[4]] = TableOf(1)
         /\ dir[TableFiles[5]] = TableOf(1)

\* ============================================================ concurrency
\* C27: at most one thread is in add_files_to_session or
\* process_session_pdfs on a session at any time.
C27_OneWriterPerSession ==
  \A session_id \in SessionIds : Cardinality(InFlight(session_id)) <= 1

\* The thread is in a run that wrote or writes its tables and whose writes
\* all succeed.
Writing(t) == threads[t].pc \in {"write", "commit"} /\ threads[t].run.fail_at = 0
\* The step is a load_current_data / an update_session_info served while
\* the threads are where they are.
LoadStep == last'.op = "load_current_data" /\ threads' = threads
InfoStep == last'.op = "update_session_info" /\ threads' = threads

\* C28: a load of the derived directory of a session on which a run is
\* writing returns the five tables the directory held before the run, or the
\* five tables of the run.
C28_LoadSeesOneRun ==
  [][LoadStep =>
       \A t \in Threads :
         (Writing(t) /\ last'.data_path = ProcessedPath(threads[t].session_id))
           => \/ last'.frames = LoadTables(threads[t].before, read_raises)
              \/ last'.frames = FramesOfRun(threads[t].run.n, read_raises)]_vars

\* What update_session_info shows of the session when its record has the
\* insight_count and the manager the dirty flag.
ViewWith(session_id, insight_count, dirty) ==
  update_session_info(
    [Self EXCEPT !.sessions = DictSet(@, session_id,
                                DictSet(sessions[session_id], "insight_count", insight_count)),
                 !.has_unprocessed_files = dirty],
    data_source)

\* C29: what update_session_info shows of a session on which a run is making
\* the assignments of lines 185-192 is what it shows with none of them made,
\* or what it shows with all of them made.
C29_CommitIsAtomicForObservers ==
  [][(InfoStep /\ last'.view.shown) =>
       \A t \in InFlight(last'.view.session_id) :
         threads[t].pc = "commit" =>
           \/ last'.view = ViewWith(threads[t].session_id, threads[t].count,
                                    has_unprocessed_files)
           \/ last'.view = ViewWith(threads[t].session_id, threads[t].run.n, FALSE)]_vars

\* The step is the return of a run of the thread with success.
RunReturns(t) ==
  /\ threads[t].pc = "commit" /\ threads[t].i = 4
  /\ threads'[t] = Idle

\* C30: when a run returns success on a session into which a file was
\* accepted after its analyzer returned, the dirty flag is true.
C30_UploadDuringRunStaysDirty ==
  [][\A t \in Threads :
       (RunReturns(t) /\ accepted'[threads[t].session_id]) => has_unprocessed_files']_vars

\* ============================================================== not found
\* The step is a call of add_files_to_session or process_session_pdfs with
\* an id that is not a key of the registry.
NotFoundCall ==
  /\ last'.op \in {"add_files_to_session", "process_session_pdfs"}
  /\ last'.session_id \notin DOMAIN sessions

\* C31: with an id that is not a key of the registry, add_files_to_session
\* and process_session_pdfs return a failure and change no record, no file,
\* and neither the mode, the current id nor the dirty flag; get_session_files
\* returns the empty list and get_processing_status 'No active session'.
C31_NotFoundHasNoSideEffects ==
  [][/\ NotFoundCall =>
          /\ ~last'.ok
          /\ last'.msg \in {"Session not found", "NLP processing not available"}
          /\ (last'.op = "add_files_to_session") => (last'.msg = "Session not found")
          /\ UNCHANGED <<current_mode, current_session_id, sessions,
                         has_unprocessed_files, uploaded_pdfs, processed_data>>
     /\ \A id \in (SessionIds \cup {None}) \ DOMAIN sessions :
          /\ get_session_files(Self, id) = <<>>
          /\ get_processing_status(Self, id) = <<"No active session">>]_vars

\* Files offered to an id that is not registered, with another session
\* current, processed and clean.
C31_Witness ==
  /\ last.op = "add_files_to_session"
  /\ last.session_id \notin DOMAIN sessions
  /\ Len(last.files) = 1
  /\ last.msg = "Session not found"
  /\ current_mode = "user"
  /\ current_session_id \in DOMAIN sessions
  /\ ~has_unprocessed_files
  /\ uploaded_pdfs[last.session_id] = EmptyUploadDir

\* ========================================================= active session
\* C32: the current id is None or a key of the registry.
C32_CurrentIdNeverDangles ==
  current_session_id = None \/ current_session_id \in DOMAIN sessions

\* The current session was removed while another one stays registered: the
\* current id is None.
C32_Witness ==
  /\ last.op = "clear_session"
  /\ last.existed /\ last.was_current
  /\ last.session_id \notin DOMAIN sessions
  /\ DOMAIN sessions # {}
  /\ current_session_id = None

\* ================================================================= upload
\* The step is a call of handle_file_upload.
UploadStep == last'.op = "handle_file_upload"

ClearsRegistered ==
  /\ last'.op = "clear_session"
  /\ last'.session_id \in DOMAIN sessions

\* C34: clear_session of a registered session that is not current leaves the
\* mode, the current id, the dirty flag and every other session's record and
\* directories unchanged; clear_session of the current session sets the mode
\* to default and the current id to None.
C34_ClearSessionFrame ==
  [][ClearsRegistered =>
       LET session_id == last'.session_id
       IN  /\ \A id \in SessionIds \ {session_id} :
                /\ (id \in DOMAIN sessions) = (id \in DOMAIN sessions')
                /\ id \in DOMAIN sessions => sessions'[id] = sessions[id]
                /\ uploaded_pdfs'[id] = uploaded_pdfs[id]
                /\ processed_data'[id] = processed_data[id]
           /\ IF session_id = current_session_id
                THEN current_mode' = "default" /\ current_session_id' = None
                ELSE UNCHANGED <<current_mode, current_session_id,
                                 has_unprocessed_files>>]_vars

\* A registered session other than the current one has been removed while
\* the current session was dirty in user mode.
C34_Witness ==
  /\ last.op = "clear_session"
  /\ last.existed /\ ~last.was_current
  /\ last.session_id \notin DOMAIN sessions
  /\ current_mode = "user"
  /\ current_session_id \in DOMAIN sessions
  /\ has_unprocessed_files

\* ====================================================== what sets the flag
\* C35: has_unprocessed_files goes from false to true only in a step of
\* add_files_to_session that accepted at least one file; create_new_session
\* and an ingest that accepted nothing do not set it.
C35_OnlyAcceptedIngestMarksDirty ==
  [][(~has_unprocessed_files /\ has_unprocessed_files') => IngestAccepted(last')]_vars

\* ================================================= after Reset to Sample Data
\* The step is the callback of the 'Reset to Sample Data' button.
ResetStep ==
  /\ last'.op = "update_data_source_indicator"
  /\ last'.triggered = "reset-default.n_clicks"

\* The step is an upload that carried files.
NonEmptyUpload == last'.op = "handle_file_upload" /\ last'.handled

\* No session is current and get_current_data_path returns the default path,
\* in the mode the manager has and in the mode any toggle value would give it.
OnSampleData(mode, id, registry) ==
  /\ id = None
  /\ PathOf(mode, id, registry) = DEFAULT_DATA_PATH
  /\ \A value \in DataSources : PathOf(value, id, registry) = DEFAULT_DATA_PATH

\* C36: when the reset callback returns, whatever the toggle's value, no
\* session is current and get_current_data_path returns the default path;
\* from a state where that is so, every step other than an upload with files
\* leaves it so.
C36_ResetHoldsUntilUpload ==
  [][/\ ResetStep => OnSampleData(current_mode', current_session_id', sessions')
     /\ (OnSampleData(current_mode, current_session_id, sessions) /\ ~NonEmptyUpload)
          => OnSampleData(current_mode', current_session_id', sessions')]_vars

\* The reset button pressed while the toggle shows 'user' and a session with
\* a file was current: the mode is 'user' again, no session is current.
C36_Witness ==
  /\ last.op = "update_data_source_indicator"
  /\ last.triggered = "reset-default.n_clicks"
  /\ data_source = "user"
  /\ current_mode = "user"
  /\ current_session_id = None
  /\ \E id \in DOMAIN sessions : Len(Files(sessions, id)) >= 1
  /\ get_current_data_path(Self) = DEFAULT_DATA_PATH

\* ============================================ callbacks of the refresh trigger
\* l records a callback that returned a new value of 'data-refresh-trigger':
\* an upload with files or a run that succeeded.
RefreshFired(l) ==
  \/ l.op = "handle_file_upload" /\ l.handled
  \/ l.op = "process_uploaded_pdfs" /\ l.refresh

\* C37: the load that render_tab or update_ai makes after the refresh trigger
\* fired reads the directory of the toggle's value (the default directory for
\* 'default', the current session's for 'user'), also when it runs before
\* update_data_source_indicator does.
C37_RefreshLoadsToggleDirectory ==
  [][(RefreshFired(last) /\ last'.op = "load_current_data")
       => last'.data_path = PathOf(data_source, current_session_id, sessions)]_vars

\* ================================================== sessions left behind
\* C38: under the callbacks (upload, process button, toggle, reset) the set of
\* registered ids only grows, and a registered session that is not current
\* does not become current.
C38_CallbacksOnlyGrowRegistry ==
  [][/\ DOMAIN sessions \subseteq DOMAIN sessions'
     /\ \A id \in DOMAIN sessions \ {current_session_id} : current_session_id' # id]_vars
====
